---- MODULE Spec2Model ----
(***************************************************************************)
(* Obsidian vault -> Supabase ingestion pipeline (src/sync.js).            *)
(*                                                                         *)
(* Strings are TLA+ strings, read character by character with SubSeq, so   *)
(* that parsing, slugification and path tests are computed as the code     *)
(* computes them.  A header value is a tagged record: a string, a list of  *)
(* strings, null, or undefined (a missing property).                       *)
(***************************************************************************)
EXTENDS Integers, Sequences, FiniteSets, TLC

(***************************************************************************)
(* String primitives of the JavaScript runtime.                            *)
(***************************************************************************)

CharAt(s, i) == SubSeq(s, i, i)

\* s.slice(i) with a 1-based first position.
From(s, i) == SubSeq(s, i, Len(s))

\* s.startsWith(p)
StartsWith(s, p) == Len(p) <= Len(s) /\ SubSeq(s, 1, Len(p)) = p

\* s.endsWith(p)
EndsWith(s, p) == Len(p) <= Len(s) /\ SubSeq(s, Len(s) - Len(p) + 1, Len(s)) = p

\* 1-based position of the first occurrence of p in s at or after i; 0 if none
\* (JavaScript's indexOf is 0-based with -1 for none).
RECURSIVE IndexFrom(_, _, _)
IndexFrom(s, p, i) ==
  IF i + Len(p) - 1 > Len(s) THEN 0
  ELSE IF SubSeq(s, i, i + Len(p) - 1) = p THEN i
  ELSE IndexFrom(s, p, i + 1)

IndexOf(s, p) == IndexFrom(s, p, 1)

\* s.includes(p)
Includes(s, p) == IndexOf(s, p) # 0

\* 1-based position of the last occurrence of the character c in s; 0 if none.
RECURSIVE LastIndexOf(_, _)
LastIndexOf(s, c) ==
  IF Len(s) = 0 THEN 0
  ELSE IF CharAt(s, Len(s)) = c THEN Len(s)
  ELSE LastIndexOf(SubSeq(s, 1, Len(s) - 1), c)

Whitespace == {" ", "\t", "\n", "\r"}

RECURSIVE TrimStart(_)
TrimStart(s) ==
  IF Len(s) > 0 /\ CharAt(s, 1) \in Whitespace THEN TrimStart(From(s, 2)) ELSE s

RECURSIVE TrimEnd(_)
TrimEnd(s) ==
  IF Len(s) > 0 /\ CharAt(s, Len(s)) \in Whitespace
  THEN TrimEnd(SubSeq(s, 1, Len(s) - 1)) ELSE s

\* s.trim()
Trim(s) == TrimEnd(TrimStart(s))

\* s.split(sep) for a one-character separator: a sequence of strings.
RECURSIVE Split(_, _)
Split(s, sep) ==
  LET i == IndexOf(s, sep) IN
  IF i = 0 THEN <<s>>
  ELSE <<SubSeq(s, 1, i - 1)>> \o Split(From(s, i + 1), sep)

\* s.replace(/\\/g, '/')
RECURSIVE ReplaceBackslashes(_)
ReplaceBackslashes(s) ==
  IF Len(s) = 0 THEN ""
  ELSE (IF CharAt(s, 1) = "\\" THEN "/" ELSE CharAt(s, 1))
         \o ReplaceBackslashes(From(s, 2))

UpperChars == "ABCDEFGHIJKLMNOPQRSTUVWXYZ"
LowerChars == "abcdefghijklmnopqrstuvwxyz"
Digits == "0123456789"

\* The characters of a string, as a set.
CharsOf(s) == {CharAt(s, k) : k \in 1..Len(s)}

UpperSet == CharsOf(UpperChars)
SlugSet == CharsOf(LowerChars) \cup CharsOf(Digits)

\* The lower-case letter of each upper-case letter.
RECURSIVE LowerFrom(_)
LowerFrom(k) ==
  IF k > Len(UpperChars) THEN <<>>
  ELSE (CharAt(UpperChars, k) :> CharAt(LowerChars, k)) @@ LowerFrom(k + 1)

LowerOf == LowerFrom(1)

LowerChar(c) == IF c \in UpperSet THEN LowerOf[c] ELSE c

\* s.toLowerCase()
RECURSIVE ToLowerCase(_)
ToLowerCase(s) ==
  IF Len(s) = 0 THEN "" ELSE LowerChar(CharAt(s, 1)) \o ToLowerCase(From(s, 2))

(***************************************************************************)
(* Header values: {string, list of strings}, plus null (an absent optional *)
(* field of a record) and undefined (a property the header lacks).         *)
(***************************************************************************)

Str(s) == [t |-> "str", s |-> s, l |-> <<>>]
Lst(l) == [t |-> "list", s |-> "", l |-> l]
Null == [t |-> "null", s |-> "", l |-> <<>>]
Undefined == [t |-> "undef", s |-> "", l |-> <<>>]

\* JavaScript truthiness: an array is truthy even when empty, a string when
\* it is not empty; null and undefined are falsy.
Truthy(v) == v.t = "list" \/ (v.t = "str" /\ v.s # "")

\* a || b
Or(a, b) == IF Truthy(a) THEN a ELSE b

\* frontmatter.k
Get(fm, k) == IF k \in DOMAIN fm THEN fm[k] ELSE Undefined

\* Array.isArray(frontmatter.tags) ? frontmatter.tags : []
TagsOf(fm) == IF Get(fm, "tags").t = "list" THEN Get(fm, "tags") ELSE Lst(<<>>)

(***************************************************************************)
(* parseFrontmatter                                                        *)
(***************************************************************************)

MatchAt(s, p, i) == i + Len(p) - 1 <= Len(s) /\ SubSeq(s, i, i + Len(p) - 1) = p

\* /^---\r?\n/ : the position after the opening marker line, 0 if no match.
OpenEnd(content) ==
  IF StartsWith(content, "---\r\n") THEN 6
  ELSE IF StartsWith(content, "---\n") THEN 5
  ELSE 0

\* The lazy group ([\s\S]*?) ends before the first position at or after i
\* where \r?\n--- matches; 0 if there is none.
RECURSIVE CloseStart(_, _)
CloseStart(content, i) ==
  IF i > Len(content) THEN 0
  ELSE IF MatchAt(content, "\r\n---", i) \/ MatchAt(content, "\n---", i) THEN i
  ELSE CloseStart(content, i + 1)

\* content.match(/^---\r?\n([\s\S]*?)\r?\n---/): the group, and the position
\* after the whole match.
HeaderMatch(content) ==
  LET open == OpenEnd(content)
      close == IF open = 0 THEN 0 ELSE CloseStart(content, open)
  IN IF close = 0
     THEN [found |-> FALSE, group |-> "", rest |-> 1]
     ELSE [found |-> TRUE,
           group |-> SubSeq(content, open, close - 1),
           rest |-> close + (IF MatchAt(content, "\r\n---", close) THEN 5 ELSE 4)]

IsQuote(c) == c \in {"\"", "'"}

\* v.replace(/^["']|["']$/g, ''): one leading and one trailing quote
\* character are dropped, whether or not they match each other.
StripQuotes(v) ==
  LET a == IF Len(v) > 0 /\ IsQuote(CharAt(v, 1)) THEN From(v, 2) ELSE v
  IN IF Len(a) > 0 /\ IsQuote(CharAt(a, Len(a))) THEN SubSeq(a, 1, Len(a) - 1) ELSE a

RECURSIVE ListItems(_)
ListItems(parts) ==
  IF parts = <<>> THEN <<>>
  ELSE LET item == StripQuotes(Trim(Head(parts)))
       IN (IF item = "" THEN <<>> ELSE <<item>>) \o ListItems(Tail(parts))

\* The value decoding of one header line (value is trimmed and not empty).
DecodeValue(value) ==
  IF StartsWith(value, "[") /\ EndsWith(value, "]")
  THEN Lst(ListItems(Split(SubSeq(value, 2, Len(value) - 1), ",")))
  ELSE IF \/ StartsWith(value, "\"") /\ EndsWith(value, "\"")
          \/ StartsWith(value, "'") /\ EndsWith(value, "'")
  THEN Str(SubSeq(value, 2, Len(value) - 1))
  ELSE Str(value)

\* One iteration of the loop over the header lines.
ParseLine(fm, line) ==
  LET colonIdx == IndexOf(line, ":")
      key == Trim(SubSeq(line, 1, colonIdx - 1))
      value == Trim(From(line, colonIdx + 1))
  IN IF colonIdx = 0 THEN fm
     ELSE IF value = "" THEN fm
     ELSE (key :> DecodeValue(value)) @@ fm

RECURSIVE ParseLines(_, _)
ParseLines(fm, lines) ==
  IF lines = <<>> THEN fm ELSE ParseLines(ParseLine(fm, Head(lines)), Tail(lines))

\* The empty object {}.
EmptyObject == [k \in {} |-> Undefined]

ParseFrontmatter(content) ==
  LET m == HeaderMatch(content) IN
  IF ~m.found THEN [frontmatter |-> EmptyObject, body |-> Trim(content)]
  ELSE [frontmatter |-> ParseLines(EmptyObject, Split(m.group, "\n")),
        body |-> Trim(From(content, m.rest))]

(***************************************************************************)
(* Paths, routing, slugify                                                 *)
(***************************************************************************)

\* path.join(dir, entry) for a normalised dir and a plain entry name.
Join(dir, entry) == dir \o "/" \o entry

\* path.extname(entry): from the last dot, unless there is none or it is the
\* first character.
Extname(entry) ==
  LET i == LastIndexOf(entry, ".") IN IF i <= 1 THEN "" ELSE From(entry, i)

\* path.basename(filePath)
Basename(filePath) == From(filePath, LastIndexOf(filePath, "/") + 1)

\* path.basename(filePath, '.md')
BasenameNoExt(filePath) ==
  LET b == Basename(filePath) IN
  IF EndsWith(b, ".md") /\ b # ".md" THEN SubSeq(b, 1, Len(b) - 3) ELSE b

NoTable == "null"
Tables == {"deep_knowledge", "atomic_concepts", "raw_meeting_intelligence"}

\* The router testing 30-Meetings before 20-Concepts.
GetTargetTable_MeetingsFirst(filePath) ==
  LET normalized == ReplaceBackslashes(filePath) IN
  IF Includes(normalized, "/10-Deep-Knowledge/") THEN "deep_knowledge"
  ELSE IF Includes(normalized, "/30-Meetings/") THEN "raw_meeting_intelligence"
  ELSE IF Includes(normalized, "/20-Concepts/") THEN "atomic_concepts"
  ELSE NoTable

GetTargetTable(filePath) ==
  LET normalized == ReplaceBackslashes(filePath) IN
  IF Includes(normalized, "/10-Deep-Knowledge/") THEN "deep_knowledge"
  ELSE IF Includes(normalized, "/20-Concepts/") THEN "atomic_concepts"
  ELSE IF Includes(normalized, "/30-Meetings/") THEN "raw_meeting_intelligence"
  ELSE NoTable

IsSlugChar(c) == c \in SlugSet

\* .replace(/[^a-z0-9]+/g, '_'): every maximal run becomes one underscore.
RECURSIVE ReplaceRuns(_, _)
ReplaceRuns(s, inRun) ==
  IF Len(s) = 0 THEN ""
  ELSE IF IsSlugChar(CharAt(s, 1)) THEN CharAt(s, 1) \o ReplaceRuns(From(s, 2), FALSE)
  ELSE (IF inRun THEN "" ELSE "_") \o ReplaceRuns(From(s, 2), TRUE)

\* .replace(/^_|_$/g, '')
StripUnderscores(s) ==
  LET a == IF StartsWith(s, "_") THEN From(s, 2) ELSE s
  IN IF EndsWith(a, "_") THEN SubSeq(a, 1, Len(a) - 1) ELSE a

\* slugify on a string.
Slugify(str) == StripUnderscores(ReplaceRuns(ToLowerCase(str), FALSE))

(***************************************************************************)
(* syncFile: the record built for each table, and what the call does up to *)
(* its first await.                                                        *)
(***************************************************************************)

\* slugify(frontmatter.title || filename) is reached only when the explicit
\* key is falsy; called on an array it throws (an array has no toLowerCase).
SlugArg(fm, filename) == Or(Get(fm, "title"), Str(filename))

\* frontmatter.x || null
OrNull(fm, k) == Or(Get(fm, k), Null)

DeepKnowledgeId(fm, filename) ==
  Or(Get(fm, "id"), Str(Slugify(SlugArg(fm, filename).s)))

ConceptName(fm, filename) ==
  Or(Or(Get(fm, "concept_name"), Get(fm, "title")), Str(filename))

\* The meeting key falling back to the filename without looking at the title.
MeetingId_SkipsTitle(fm, filename) ==
  Or(Get(fm, "meeting_id"), Str(Slugify(filename)))

MeetingId(fm, filename) ==
  Or(Get(fm, "meeting_id"), Str(Slugify(SlugArg(fm, filename).s)))

\* The conflict key of each table (onConflict); the header field that gives
\* the key explicitly has the same name.
KeyField(table) ==
  CASE table = "deep_knowledge" -> "id"
    [] table = "atomic_concepts" -> "concept_name"
    [] table = "raw_meeting_intelligence" -> "meeting_id"

\* Whether building the record throws before any upsert is issued.
BuildThrows(table, fm, filename) ==
  /\ table \in {"deep_knowledge", "raw_meeting_intelligence"}
  /\ ~Truthy(Get(fm, KeyField(table)))
  /\ SlugArg(fm, filename).t # "str"

SummarySliceLen == 300

RECURSIVE FirstNonBlank(_)
FirstNonBlank(lines) ==
  IF lines = <<>> THEN ""
  ELSE IF Trim(Head(lines)) # "" THEN Head(lines)
  ELSE FirstNonBlank(Tail(lines))

\* body.split('\n').find((l) => l.trim()) || body.slice(0, 300)
Summary(body) ==
  LET l == FirstNonBlank(Split(body, "\n")) IN
  IF l # "" THEN l
  ELSE SubSeq(body, 1, IF Len(body) < SummarySliceLen THEN Len(body) ELSE SummarySliceLen)

DeepKnowledgeRecord(filePath, fm, body) ==
  LET filename == BasenameNoExt(filePath) IN
  [id |-> DeepKnowledgeId(fm, filename),
   title |-> Or(Get(fm, "title"), Str(filename)),
   subtitle |-> OrNull(fm, "subtitle"),
   author |-> OrNull(fm, "author"),
   source_type |-> Or(Get(fm, "source_type"), Str("obsidian")),
   category |-> OrNull(fm, "category"),
   role_focus |-> OrNull(fm, "role_focus"),
   raw_content |-> Str(body),
   metadata |-> [tags |-> TagsOf(fm),
                 topic_primary |-> OrNull(fm, "topic_primary"),
                 difficulty_tier |-> OrNull(fm, "difficulty_tier")],
   published_date |-> OrNull(fm, "published_date"),
   source_filename |-> Str(Basename(filePath)),
   source_batch |-> Str("obsidian_sync")]

AtomicConceptRecord(filePath, fm, body) ==
  [concept_name |-> ConceptName(fm, BasenameNoExt(filePath)),
   summary |-> Str(Summary(body)),
   tags |-> TagsOf(fm)]

MeetingRecord(filePath, fm, body) ==
  [meeting_id |-> MeetingId(fm, BasenameNoExt(filePath)),
   source_relpath |-> Str(ReplaceBackslashes(filePath)),
   payload |-> Str(body)]

NoRecord == [none |-> Null]

\* syncFile from the parse to the upsert call, for content that was read:
\* "skipped" (returns 'skipped'), "throw" (the build throws) or "upsert"
\* (the record is handed to the store client and the call awaits it).
SyncPlan(filePath, content) ==
  LET parsed == ParseFrontmatter(content)
      fm == parsed.frontmatter
      table == GetTargetTable(filePath)
  IN IF table = NoTable THEN [kind |-> "skipped", table |-> NoTable, record |-> NoRecord]
     ELSE IF BuildThrows(table, fm, BasenameNoExt(filePath))
     THEN [kind |-> "throw", table |-> table, record |-> NoRecord]
     ELSE [kind |-> "upsert", table |-> table,
           record |-> CASE table = "deep_knowledge" ->
                             DeepKnowledgeRecord(filePath, fm, parsed.body)
                        [] table = "atomic_concepts" ->
                             AtomicConceptRecord(filePath, fm, parsed.body)
                        [] table = "raw_meeting_intelligence" ->
                             MeetingRecord(filePath, fm, parsed.body)]

\* The conflict-key value of a record of a table.
KeyOf(table, record) == record[KeyField(table)]

(***************************************************************************)
(* The store client: upsert(record, {onConflict: key}) replaces the row    *)
(* with the same conflict-key value, or inserts.                           *)
(***************************************************************************)

\* A store client that inserts without looking at the conflict key.
Upsert_InsertOnly(st, table, record) ==
  [st EXCEPT ![table] = @ \cup {record}]

\* A store client whose upsert replaces the table's rows by the new one.
Upsert_ReplaceTable(st, table, record) ==
  [st EXCEPT ![table] = {record}]

Upsert(st, table, record) ==
  [st EXCEPT ![table] =
     {r \in @ : KeyOf(table, r) # KeyOf(table, record)} \cup {record}]

EmptyStore == [t \in Tables |-> {}]

(***************************************************************************)
(* The vault: a sequence of directory entries in readdir order.  A file    *)
(* that is not readable makes readFileSync throw.                          *)
(***************************************************************************)

vaultPath == "/v"

Dir(parent, name) ==
  [parent |-> parent, name |-> name, isDir |-> TRUE, readable |-> TRUE, content |-> ""]

File(parent, name, content) ==
  [parent |-> parent, name |-> name, isDir |-> FALSE, readable |-> TRUE,
   content |-> content]

Unreadable(parent, name) ==
  [parent |-> parent, name |-> name, isDir |-> FALSE, readable |-> FALSE,
   content |-> ""]

\* The directories of every vault of the model.
VaultDirs ==
  << Dir("/v", "10-Deep-Knowledge"),
     Dir("/v/10-Deep-Knowledge", "20-Concepts"),
     Dir("/v", "20-Concepts"),
     Dir("/v/20-Concepts", "30-Meetings"),
     Dir("/v", "_templates"),
     Dir("/v", "30-Meetings"),
     Dir("/v/30-Meetings", "notes.md"),
     Dir("/v", ".obsidian"),
     Dir("/v/.obsidian", "plugins") >>

\* The documents a vault of the pipeline specification is drawn from.
PipelineCatalog ==
  << File("/v/10-Deep-Knowledge", "a.md", "Body A"),
     File("/v/10-Deep-Knowledge", "c.md", "---\ntitle: A\n---\nBody C"),
     File("/v/10-Deep-Knowledge", "---.md", "dashes"),
     File("/v/10-Deep-Knowledge", "t.md", "---\ntitle: [x, y]\n---\nB"),
     File("/v/10-Deep-Knowledge/20-Concepts", "d.md",
          "---\nid: k1\ntitle: T\ntags: [ai, \"gtm\"]\n---\nD"),
     File("/v/20-Concepts", "b.md", "---\nconcept_name: Foo\n---\nFoo is x"),
     Unreadable("/v/_templates", "u.md"),
     File("/v/30-Meetings", "m.md",
          "---\nmeeting_id: \"\"\ntitle: Kick Off\n---\nnotes"),
     File("/v/30-Meetings", "README.md", "about"),
     File("/v", "n.md", "loose note") >>

\* The entries a vault of the walk specification is drawn from: names and
\* places the walker and the router tell apart.
WalkCatalog ==
  << File("/v/10-Deep-Knowledge", "a.md", "x"),
     File("/v/10-Deep-Knowledge", "_draft.md", "x"),
     File("/v/10-Deep-Knowledge", ".hidden.md", "x"),
     File("/v/10-Deep-Knowledge/20-Concepts", "both.md", "x"),
     File("/v/20-Concepts", "notes.txt", "x"),
     File("/v/20-Concepts", "README.md", "x"),
     File("/v/20-Concepts", "readme.md", "x"),
     File("/v/20-Concepts/30-Meetings", "mix.md", "x"),
     File("/v/_templates", "tpl.md", "x"),
     Unreadable("/v/30-Meetings", "u.md"),
     File("/v/30-Meetings", "UPPER.MD", "x"),
     File("/v/30-Meetings/notes.md", "old.md", "x"),
     File("/v/.obsidian", "x.md", "x"),
     File("/v/.obsidian/plugins", "p.md", "x"),
     File("/v", "20-Concepts.md", "x") >>

\* The documents a vault of the key specification is drawn from: for each
\* routed directory, every combination of an explicit key line (none, a
\* string, an empty quoted string, a list) and a title line (the same).
KeyDirs == <<"/v/10-Deep-Knowledge", "/v/20-Concepts", "/v/30-Meetings">>
KeyTables == <<"deep_knowledge", "atomic_concepts", "raw_meeting_intelligence">>

KeyLines(table) ==
  << "", KeyField(table) \o ": K 1\n", KeyField(table) \o ": \"\"\n",
     KeyField(table) \o ": [p, q]\n" >>

TitleLines == << "", "title: My Title\n", "title: ''\n", "title: [x]\n" >>

KeyCatalog ==
  [n \in 1..48 |->
     LET d == ((n - 1) \div 16) + 1
         k == (((n - 1) \div 4) % 4) + 1
         t == ((n - 1) % 4) + 1
     IN File(KeyDirs[d], "Doc 1.md",
             "---\n" \o KeyLines(KeyTables[d])[k] \o TitleLines[t] \o "---\nText")]
  \o << File("/v", "Doc 1.md", "loose") >>

MaxFiles == 3
MaxWalkFiles == 2
MaxKeyFiles == 1
MaxRuns == 2
MaxStoreFaults == 1

RECURSIVE Pick(_, _, _)
Pick(catalog, S, i) ==
  IF i > Len(catalog) THEN <<>>
  ELSE (IF i \in S THEN <<catalog[i]>> ELSE <<>>) \o Pick(catalog, S, i + 1)

\* The subsets of S with at most k elements.
RECURSIVE SubsetsUpTo(_, _)
SubsetsUpTo(S, k) ==
  IF k = 0 THEN {{}}
  ELSE LET P == SubsetsUpTo(S, k - 1) IN P \cup {T \cup {x} : T \in P, x \in S}

\* The file sets of the vaults holding at most max entries of a catalog, no
\* two of them at the same path.
Vaults(catalog, max) ==
  { Pick(catalog, S, 1) :
      S \in { T \in SubsetsUpTo(1..Len(catalog), max) :
                \A a, b \in T :
                  (catalog[a].parent = catalog[b].parent
                     /\ catalog[a].name = catalog[b].name) => a = b } }

VARIABLES
  fs,        \* the vault's files, in readdir order
  envOk,     \* SUPABASE_URL and SUPABASE_SERVICE_ROLE_KEY are both set
  pc,        \* "start", "loop", "await", "done", "exited", "crashed"
  run,       \* which invocation of the process this is
  files,     \* main's files
  idx,       \* position of the for loop in files (1-based)
  synced, skipped, errors,
  inflight,  \* the upsert awaited: [table, record]
  store,     \* the three tables
  store0,    \* the tables when this invocation started
  outcomes,  \* per walked document of this invocation, its terminal state
  exit,      \* "none", "zero", "nonzero"
  walkFailed,\* the directory whose readdirSync threw, "" if none
  faults,    \* store failures so far
  prev       \* the previous invocation's result

vars == <<fs, envOk, pc, run, files, idx, synced, skipped, errors, inflight,
          store, store0, outcomes, exit, walkFailed, faults, prev>>

\* The vault: its directories, then its files.
Vault == VaultDirs \o fs

\* readdirSync(dir): the entries of dir, in order.
Readdir(dir) == SelectSeq(Vault, LAMBDA e : e.parent = dir)

DirPaths ==
  {Join(VaultDirs[k].parent, VaultDirs[k].name) : k \in 1..Len(VaultDirs)}
    \cup {vaultPath}

RECURSIVE WalkDir(_, _, _)
RECURSIVE WalkEntries(_, _, _, _)
RECURSIVE WalkEntries_KeepsReadme(_, _, _, _)
RECURSIVE WalkEntries_KeepsUnderscore(_, _, _, _)
RECURSIVE WalkDir_SkipsUnreadable(_, _, _)

\* A walk that leaves an unreadable directory out and goes on.
WalkDir_SkipsUnreadable(dir, fileList, bad) ==
  IF dir \in bad THEN [ok |-> TRUE, list |-> fileList, dir |-> ""]
  ELSE WalkEntries(dir, Readdir(dir), fileList, bad)

\* walkDir(dir, fileList) where readdirSync throws on the directories of bad:
\* the list, or the failure that propagates out of every enclosing call.
WalkDir(dir, fileList, bad) ==
  IF dir \in bad THEN [ok |-> FALSE, list |-> fileList, dir |-> dir]
  ELSE WalkEntries(dir, Readdir(dir), fileList, bad)

\* The loop without the README.md rule.
WalkEntries_KeepsReadme(dir, entries, fileList, bad) ==
  IF entries = <<>> THEN [ok |-> TRUE, list |-> fileList, dir |-> ""]
  ELSE
    LET e == Head(entries)
        entry == e.name
        fullPath == Join(dir, entry)
    IN IF StartsWith(entry, ".")
       THEN WalkEntries_KeepsReadme(dir, Tail(entries), fileList, bad)
       ELSE IF e.isDir
       THEN LET r == WalkDir(fullPath, fileList, bad)
            IN IF ~r.ok THEN r
               ELSE WalkEntries_KeepsReadme(dir, Tail(entries), r.list, bad)
       ELSE IF Extname(entry) = ".md" /\ ~StartsWith(entry, "_")
       THEN WalkEntries_KeepsReadme(dir, Tail(entries), Append(fileList, fullPath), bad)
       ELSE WalkEntries_KeepsReadme(dir, Tail(entries), fileList, bad)

\* The loop without the underscore rule.
WalkEntries_KeepsUnderscore(dir, entries, fileList, bad) ==
  IF entries = <<>> THEN [ok |-> TRUE, list |-> fileList, dir |-> ""]
  ELSE
    LET e == Head(entries)
        entry == e.name
        fullPath == Join(dir, entry)
    IN IF StartsWith(entry, ".")
       THEN WalkEntries_KeepsUnderscore(dir, Tail(entries), fileList, bad)
       ELSE IF e.isDir
       THEN LET r == WalkDir(fullPath, fileList, bad)
            IN IF ~r.ok THEN r
               ELSE WalkEntries_KeepsUnderscore(dir, Tail(entries), r.list, bad)
       ELSE IF Extname(entry) = ".md" /\ entry # "README.md"
       THEN WalkEntries_KeepsUnderscore(dir, Tail(entries), Append(fileList, fullPath), bad)
       ELSE WalkEntries_KeepsUnderscore(dir, Tail(entries), fileList, bad)

\* The body of walkDir's for loop over the remaining entries.
WalkEntries(dir, entries, fileList, bad) ==
  IF entries = <<>> THEN [ok |-> TRUE, list |-> fileList, dir |-> ""]
  ELSE
    LET e == Head(entries)
        entry == e.name
        fullPath == Join(dir, entry)
    IN IF StartsWith(entry, ".") THEN WalkEntries(dir, Tail(entries), fileList, bad)
       ELSE IF e.isDir
       THEN LET r == WalkDir(fullPath, fileList, bad)
            IN IF ~r.ok THEN r ELSE WalkEntries(dir, Tail(entries), r.list, bad)
       ELSE IF Extname(entry) = ".md" /\ ~StartsWith(entry, "_") /\ entry # "README.md"
       THEN WalkEntries(dir, Tail(entries), Append(fileList, fullPath), bad)
       ELSE WalkEntries(dir, Tail(entries), fileList, bad)

\* The entry of the vault at a path.
EntryAt(filePath) ==
  CHOOSE e \in {Vault[k] : k \in 1..Len(Vault)} : Join(e.parent, e.name) = filePath

NoUpsert == [table |-> NoTable, record |-> NoRecord]
NoPrev == [run |-> 0, synced |-> 0, ioFailed |-> FALSE]

InitWith(catalog, max) ==
  /\ fs \in Vaults(catalog, max)
  /\ envOk \in BOOLEAN
  /\ pc = "start"
  /\ run = 1
  /\ files = <<>>
  /\ idx = 1
  /\ synced = 0 /\ skipped = 0 /\ errors = 0
  /\ inflight = NoUpsert
  /\ store = EmptyStore
  /\ store0 = EmptyStore
  /\ outcomes = <<>>
  /\ exit = "none"
  /\ walkFailed = ""
  /\ faults = 0
  /\ prev = NoPrev

Init == InitWith(PipelineCatalog, MaxFiles)
InitWalk == InitWith(WalkCatalog, MaxWalkFiles)
InitKeys == InitWith(KeyCatalog, MaxKeyFiles)

(***************************************************************************)
(* The process: the environment check, then main.                          *)
(***************************************************************************)

\* if (!SUPABASE_URL || !SUPABASE_SERVICE_ROLE_KEY) process.exit(1)
EnvMissing ==
  /\ pc = "start" /\ ~envOk
  /\ pc' = "exited"
  /\ exit' = "nonzero"
  /\ UNCHANGED <<fs, envOk, run, files, idx, synced, skipped, errors, inflight,
                 store, store0, outcomes, walkFailed, faults, prev>>

\* The directories whose read may fail: the root, a nested directory, a
\* directory read after documents were listed, a dot-directory never read.
UnreadableDirs ==
  {vaultPath, "/v/10-Deep-Knowledge/20-Concepts", "/v/30-Meetings", "/v/.obsidian"}

\* The directories whose readdirSync throws in one walk: none, or one.
BadDirChoices == {{}} \cup {{d} : d \in UnreadableDirs}

\* const files = walkDir(vaultPath); let synced = 0, skipped = 0, errors = 0
WalkReturns ==
  /\ pc = "start" /\ envOk
  /\ \E bad \in BadDirChoices :
       LET r == WalkDir(vaultPath, <<>>, bad) IN
       /\ r.ok
       /\ files' = r.list
  /\ idx' = 1
  /\ synced' = 0 /\ skipped' = 0 /\ errors' = 0
  /\ pc' = "loop"
  /\ UNCHANGED <<fs, envOk, run, inflight, store, store0, outcomes, exit,
                 walkFailed, faults, prev>>

\* walkDir throws out of main: the promise main() returns is rejected and
\* nothing handles it, which ends the process with a non-zero code.
WalkThrows ==
  /\ pc = "start" /\ envOk
  /\ \E bad \in BadDirChoices :
       LET r == WalkDir(vaultPath, <<>>, bad) IN
       /\ ~r.ok
       /\ walkFailed' = r.dir
  /\ pc' = "crashed"
  /\ exit' = "nonzero"
  /\ UNCHANGED <<fs, envOk, run, files, idx, synced, skipped, errors, inflight,
                 store, store0, outcomes, faults, prev>>

Outcome(filePath, state, why, plan) ==
  [path |-> filePath, state |-> state, why |-> why, table |-> plan.table]

\* An iteration whose failure ends the loop instead of being isolated.
SyncFileThrows_Aborts ==
  /\ pc = "loop" /\ idx <= Len(files)
  /\ LET file == files[idx]
         e == EntryAt(file)
         plan == SyncPlan(file, e.content)
     IN /\ ~e.readable \/ plan.kind = "throw"
        /\ outcomes' = Append(outcomes,
             Outcome(file, "Failed", IF ~e.readable THEN "read" ELSE "build", NoUpsert))
  /\ errors' = errors + 1
  /\ idx' = idx + 1
  /\ pc' = "done"
  /\ exit' = "nonzero"
  /\ UNCHANGED <<fs, envOk, run, files, synced, skipped, inflight, store,
                 store0, walkFailed, faults, prev>>

\* One iteration in which syncFile throws before its await (readFileSync
\* throws, or slugify does); the catch counts an error.
SyncFileThrows ==
  /\ pc = "loop" /\ idx <= Len(files)
  /\ LET file == files[idx]
         e == EntryAt(file)
         plan == SyncPlan(file, e.content)
     IN /\ ~e.readable \/ plan.kind = "throw"
        /\ outcomes' = Append(outcomes,
             Outcome(file, "Failed", IF ~e.readable THEN "read" ELSE "build", NoUpsert))
  /\ errors' = errors + 1
  /\ idx' = idx + 1
  /\ UNCHANGED <<fs, envOk, pc, run, files, synced, skipped, inflight, store,
                 store0, exit, walkFailed, faults, prev>>

\* One iteration in which syncFile returns 'skipped'.
SyncFileSkipped ==
  /\ pc = "loop" /\ idx <= Len(files)
  /\ LET file == files[idx]
         e == EntryAt(file)
         plan == SyncPlan(file, e.content)
     IN /\ e.readable /\ plan.kind = "skipped"
        /\ outcomes' = Append(outcomes, Outcome(file, "Skipped", "", NoUpsert))
  /\ skipped' = skipped + 1
  /\ idx' = idx + 1
  /\ UNCHANGED <<fs, envOk, pc, run, files, synced, errors, inflight, store,
                 store0, exit, walkFailed, faults, prev>>

\* syncFile reads, parses, routes, builds the record and calls upsert; main
\* awaits the call.
SyncFileUpserts ==
  /\ pc = "loop" /\ idx <= Len(files)
  /\ LET file == files[idx]
         e == EntryAt(file)
         plan == SyncPlan(file, e.content)
     IN /\ e.readable /\ plan.kind = "upsert"
        /\ inflight' = [table |-> plan.table, record |-> plan.record]
  /\ pc' = "await"
  /\ UNCHANGED <<fs, envOk, run, files, idx, synced, skipped, errors, store,
                 store0, outcomes, exit, walkFailed, faults, prev>>

\* The upsert succeeded: syncFile returns `table:key`, main counts it.
UpsertSucceeds ==
  /\ pc = "await"
  /\ store' = Upsert(store, inflight.table, inflight.record)
  /\ outcomes' = Append(outcomes, Outcome(files[idx], "Synced", "", inflight))
  /\ synced' = synced + 1
  /\ idx' = idx + 1
  /\ inflight' = NoUpsert
  /\ pc' = "loop"
  /\ UNCHANGED <<fs, envOk, run, files, skipped, errors, store0, exit,
                 walkFailed, faults, prev>>

\* A store error answered by issuing the upsert of the same document again.
UpsertFails_Retries ==
  /\ pc = "await" /\ faults < MaxStoreFaults
  /\ faults' = faults + 1
  /\ inflight' = NoUpsert
  /\ pc' = "loop"
  /\ UNCHANGED <<fs, envOk, run, files, idx, synced, skipped, errors, store,
                 store0, outcomes, exit, walkFailed, prev>>

\* The upsert reported an error: syncFile throws it, the catch counts it.
UpsertFails ==
  /\ pc = "await" /\ faults < MaxStoreFaults
  /\ outcomes' = Append(outcomes, Outcome(files[idx], "Failed", "store", inflight))
  /\ errors' = errors + 1
  /\ faults' = faults + 1
  /\ idx' = idx + 1
  /\ inflight' = NoUpsert
  /\ pc' = "loop"
  /\ UNCHANGED <<fs, envOk, run, files, synced, skipped, store, store0, exit,
                 walkFailed, prev>>

\* The exit test off by one: if (errors > 1) process.exit(1).
Finish_OffByOne ==
  /\ pc = "loop" /\ idx > Len(files)
  /\ pc' = "done"
  /\ exit' = IF errors > 1 THEN "nonzero" ELSE "zero"
  /\ UNCHANGED <<fs, envOk, run, files, idx, synced, skipped, errors, inflight,
                 store, store0, outcomes, walkFailed, faults, prev>>

\* After the loop: the summary line, and if (errors > 0) process.exit(1).
Finish ==
  /\ pc = "loop" /\ idx > Len(files)
  /\ pc' = "done"
  /\ exit' = IF errors > 0 THEN "nonzero" ELSE "zero"
  /\ UNCHANGED <<fs, envOk, run, files, idx, synced, skipped, errors, inflight,
                 store, store0, outcomes, walkFailed, faults, prev>>

\* The operator runs the pipeline again over the unchanged vault.
Rerun ==
  /\ pc = "done" /\ run < MaxRuns
  /\ prev' = [run |-> run, synced |-> synced,
              ioFailed |-> (\E k \in 1..Len(outcomes) :
                              outcomes[k].why \in {"read", "store"})]
  /\ run' = run + 1
  /\ store0' = store
  /\ pc' = "start"
  /\ files' = <<>>
  /\ idx' = 1
  /\ synced' = 0 /\ skipped' = 0 /\ errors' = 0
  /\ outcomes' = <<>>
  /\ exit' = "none"
  /\ UNCHANGED <<fs, envOk, inflight, store, walkFailed, faults>>

Next ==
  \/ EnvMissing
  \/ WalkReturns
  \/ WalkThrows
  \/ SyncFileThrows
  \/ SyncFileSkipped
  \/ SyncFileUpserts
  \/ UpsertSucceeds
  \/ UpsertFails
  \/ Finish
  \/ Rerun

Spec == Init /\ [][Next]_vars
SpecWalk == InitWalk /\ [][Next]_vars
SpecKeys == InitKeys /\ [][Next]_vars

(***************************************************************************)
(* What the claims speak of.                                               *)
(***************************************************************************)

\* The documents of a run whose read or upsert failed.
Perms(n) == {f \in [1..n -> 1..n] : \A a, b \in 1..n : a # b => f[a] # f[b]}

IoFailures(os) ==
  {k \in 1..Len(os) : os[k].state = "Failed" /\ os[k].why \in {"read", "store"}}

Failed(os) == {k \in 1..Len(os) : os[k].state = "Failed"}

KeysUnique(st) ==
  \A t \in Tables : \A r1, r2 \in st[t] : KeyOf(t, r1) = KeyOf(t, r2) => r1 = r2

\* What a walked document does when it is read: its plan, or none when the
\* file cannot be read.
PlanOf(filePath) ==
  LET e == EntryAt(filePath) IN
  IF e.readable THEN SyncPlan(filePath, e.content)
  ELSE [kind |-> "throw", table |-> NoTable, record |-> NoRecord]

\* The plans of a list of walked paths, from the k-th on.
RECURSIVE PlansOf(_, _)
PlansOf(paths, k) ==
  IF k > Len(paths) THEN <<>>
  ELSE <<PlanOf(paths[k])>> \o PlansOf(paths, k + 1)

\* main's loop over the plans of the walked paths in some order when no
\* upsert fails: the store it ends with.
RECURSIVE LoopResult(_, _, _)
LoopResult(plans, k, st) ==
  IF k > Len(plans) THEN st
  ELSE LoopResult(plans, k + 1,
                  IF plans[k].kind = "upsert"
                  THEN Upsert(st, plans[k].table, plans[k].record)
                  ELSE st)

\* The store main's loop ends with over every order of the walked paths.
Reorderings(paths, st) ==
  LET plans == PlansOf(paths, 1)
      n == Len(paths)
  IN { LoopResult([k \in 1..n |-> plans[f[k]]], 1, st) : f \in Perms(n) }

\* Two different walked documents derive the same key for the same table.
SharedKey(paths) ==
  LET plans == PlansOf(paths, 1) IN
  \E a, b \in 1..Len(paths) :
    /\ a < b
    /\ plans[a].kind = "upsert" /\ plans[b].kind = "upsert"
    /\ plans[a].table = plans[b].table
    /\ KeyOf(plans[a].table, plans[a].record) = KeyOf(plans[b].table, plans[b].record)

\* C1: idempotence. When a run and the run before it over the same vault had
\* every read and every upsert succeed, the later run leaves the three tables
\* exactly as the earlier one left them, and no table holds two rows with the
\* same conflict-key value.
C1_Idempotent ==
  (pc = "done" /\ prev.run > 0
     /\ IoFailures(outcomes) = {} /\ ~prev.ioFailed)
  => (store = store0 /\ KeysUnique(store))

C1_Witness ==
  /\ pc = "done" /\ prev.run > 0
  /\ IoFailures(outcomes) = {} /\ ~prev.ioFailed
  /\ synced >= 2 /\ prev.synced >= 2
  /\ SharedKey(files)

\* C2 as stated: order independence for every document set, also those in
\* which two documents derive the same key for the same table. Every
\* permutation of the walked paths, run from the store the run started with,
\* ends with the store this run ended with.
C2_AnyOrder_Original ==
  (pc = "done" /\ IoFailures(outcomes) = {})
  => Reorderings(files, store0) = {store}

\* C2 amended: order independence for document sets in which no two
\* documents derive the same key for the same table.
C2_AnyOrder ==
  (pc = "done" /\ IoFailures(outcomes) = {} /\ ~SharedKey(files))
  => Reorderings(files, store0) = {store}

C2_Witness ==
  /\ pc = "done" /\ IoFailures(outcomes) = {} /\ ~SharedKey(files)
  /\ synced >= 3
  /\ store0 # EmptyStore

\* The walked documents processed so far, each exactly once and in order;
\* the three counters add up to their number, and when the loop has ended
\* every walked path has been processed.
ProcessedOnce ==
  pc \in {"loop", "await", "done"} =>
    /\ Len(outcomes) = idx - 1
    /\ Len(outcomes) <= Len(files)
    /\ \A k \in 1..Len(outcomes) : outcomes[k].path = files[k]
    /\ synced + skipped + errors = Len(outcomes)
    /\ synced = Cardinality({k \in 1..Len(outcomes) : outcomes[k].state = "Synced"})
    /\ skipped = Cardinality({k \in 1..Len(outcomes) : outcomes[k].state = "Skipped"})
    /\ (pc = "done" => Len(outcomes) = Len(files))

\* The processed documents whose file could not be read, whose record could
\* not be built, whose upsert the store failed.
ReadFailed == {k \in 1..Len(outcomes) : ~EntryAt(files[k]).readable}
BuildFailed(plans) == {k \in 1..Len(outcomes) : plans[k].kind = "throw"} \ ReadFailed
StoreFailed == {k \in 1..Len(outcomes) : outcomes[k].why = "store"}

\* The last document at or after k that was synced under k's table and key.
LastSynced(plans, k) ==
  LET same == {j \in k..Len(outcomes) :
                 /\ outcomes[j].state = "Synced"
                 /\ outcomes[j].table = outcomes[k].table
                 /\ KeyOf(outcomes[j].table, plans[j].record)
                      = KeyOf(outcomes[k].table, plans[k].record)}
  IN CHOOSE j \in same : \A i \in same : i <= j

\* C3 as stated: failure isolation and counting, with failed equal to the
\* number of documents whose read or upsert failed and the record of every
\* synced document persisted when the loop ends.
C3_Isolation_Original ==
  /\ ProcessedOnce
  /\ pc = "done" =>
       LET plans == PlansOf(files, 1) IN
       /\ errors = Cardinality(ReadFailed \cup StoreFailed)
       /\ \A k \in 1..Len(outcomes) :
            outcomes[k].state = "Synced" =>
              plans[k].record \in store[outcomes[k].table]

\* C3 amended: failed counts the documents whose read, record build or upsert
\* failed; after the loop the table of every synced document holds, under
\* that document's key, the record of the last document synced under it.
C3_Isolation ==
  /\ ProcessedOnce
  /\ pc = "done" =>
       LET plans == PlansOf(files, 1) IN
       /\ errors = Cardinality(ReadFailed \cup BuildFailed(plans) \cup StoreFailed)
       /\ Failed(outcomes) = ReadFailed \cup BuildFailed(plans) \cup StoreFailed
       /\ \A k \in 1..Len(outcomes) :
            outcomes[k].state = "Synced" =>
              plans[LastSynced(plans, k)].record \in store[outcomes[k].table]

\* Three documents, the second unreadable: synced=2, skipped=0, failed=1 and
\* the records of the first and third are persisted.
C3_Witness ==
  /\ pc = "done" /\ Len(files) = 3
  /\ ReadFailed = {2}
  /\ synced = 2 /\ skipped = 0 /\ errors = 1
  /\ PlanOf(files[1]).record \in store[outcomes[1].table]
  /\ PlanOf(files[3]).record \in store[outcomes[3].table]

Terminated == pc \in {"done", "exited", "crashed"}

\* C4 as stated: the process signals failure exactly when at least one
\* document ended in Failed.
C4_ExitSignal_Original ==
  Terminated => (exit = "nonzero" <=> Failed(outcomes) # {})

\* C4 amended: a run that gets to its loop signals failure exactly when at
\* least one document ended in Failed; a run that stops before the loop (the
\* store configuration is missing, or the walk throws) signals failure with
\* no document processed; no other state carries a signal.
C4_ExitSignal ==
  /\ pc = "done" => /\ exit \in {"zero", "nonzero"}
                    /\ exit = "nonzero" <=> Failed(outcomes) # {}
  /\ pc \in {"exited", "crashed"} => exit = "nonzero" /\ outcomes = <<>>
  /\ ~Terminated => exit = "none"

C4_Witness ==
  /\ pc = "done" /\ exit = "nonzero"
  /\ Cardinality(Failed(outcomes)) = 1 /\ synced >= 1 /\ skipped >= 1

\* The vault of the summary scenario: 10-Deep-Knowledge/a.md without header,
\* 20-Concepts/b.md with concept_name: Foo, 30-Meetings/README.md.
ScenarioVault ==
  <<PipelineCatalog[1], PipelineCatalog[6], PipelineCatalog[9]>>

\* C5 as stated: the scenario reports synced=2, skipped=1, failed=0.
C5_Summary_Original ==
  (fs = ScenarioVault /\ pc = "done" /\ IoFailures(outcomes) = {})
  => (synced = 2 /\ skipped = 1 /\ errors = 0)

\* C5 amended: the scenario reports synced=2, skipped=0, failed=0; README.md
\* is left out by the walker and counted nowhere.
C5_Summary ==
  (fs = ScenarioVault /\ pc = "done" /\ IoFailures(outcomes) = {})
  => /\ synced = 2 /\ skipped = 0 /\ errors = 0
     /\ files = <<"/v/10-Deep-Knowledge/a.md", "/v/20-Concepts/b.md">>

C5_Witness ==
  /\ fs = ScenarioVault /\ pc = "done" /\ IoFailures(outcomes) = {}
  /\ Cardinality(store["deep_knowledge"]) = 1
  /\ Cardinality(store["atomic_concepts"]) = 1

Entries == {Vault[k] : k \in 1..Len(Vault)}

\* The directory names between the vault root and an entry.
AncestorNames(e) ==
  LET segs == Split(From(e.parent, Len(vaultPath) + 1), "/")
  IN {segs[k] : k \in 1..Len(segs)}

\* The claim's rule: a .md file, not README.md, whose name starts with
\* neither a dot nor an underscore, below no directory whose name starts with
\* a dot.
Eligible(e) ==
  /\ ~e.isDir
  /\ Extname(e.name) = ".md"
  /\ ~StartsWith(e.name, ".")
  /\ ~StartsWith(e.name, "_")
  /\ e.name # "README.md"
  /\ \A d \in AncestorNames(e) : ~StartsWith(d, ".")

EligiblePaths == {Join(e.parent, e.name) : e \in {x \in Entries : Eligible(x)}}

\* C6: exclusion rule. After the walk, files holds every eligible path
\* exactly once and nothing else; no document outside it is ever processed
\* or upserted.
C6_Exclusion ==
  pc \in {"loop", "await", "done"} =>
    LET eligible == EligiblePaths
        rows == UNION {store[t] : t \in Tables}
    IN
    /\ \A a, b \in 1..Len(files) : a # b => files[a] # files[b]
    /\ {files[k] : k \in 1..Len(files)} = eligible
    /\ \A k \in 1..Len(files) :
         /\ ~Includes(files[k], "/.")
         /\ ~StartsWith(Basename(files[k]), "_")
         /\ Basename(files[k]) # "README.md"
         /\ EndsWith(files[k], ".md")
    /\ \A k \in 1..Len(outcomes) : outcomes[k].path \in eligible
    /\ rows # {} =>
         LET plans == {PlanOf(p) : p \in eligible} IN
         \A t \in Tables : \A r \in store[t] :
           \E plan \in plans :
             plan.kind = "upsert" /\ plan.table = t /\ plan.record = r

C6_Witness ==
  /\ pc = "done"
  /\ Len(files) = 1 /\ synced = 1
  /\ \E e \in Entries : ~e.isDir /\ ~Eligible(e)

\* The table a processed document was routed to: none for a skipped one.
Routed(o) == IF o.state = "Skipped" THEN NoTable ELSE o.table

\* The documents that got as far as the router's answer being acted on.
WasRouted(o) == o.state \in {"Synced", "Skipped"} \/ o.why = "store"

\* C7 as stated: a path containing /20-Concepts/ anywhere is routed to
\* atomic_concepts whatever else it contains; a path with none of the three
\* segments is skipped.
C7_Routing_Original ==
  \A k \in 1..Len(outcomes) :
    LET o == outcomes[k]
        p == ReplaceBackslashes(o.path)
    IN WasRouted(o) =>
         /\ Includes(p, "/20-Concepts/") => Routed(o) = "atomic_concepts"
         /\ (~Includes(p, "/10-Deep-Knowledge/") /\ ~Includes(p, "/20-Concepts/")
               /\ ~Includes(p, "/30-Meetings/")) => Routed(o) = NoTable

\* C7 amended: a path containing /20-Concepts/ and not /10-Deep-Knowledge/ is
\* routed to atomic_concepts, whether or not it contains /30-Meetings/; a
\* path containing /10-Deep-Knowledge/ is routed to deep_knowledge; a path
\* with none of the three segments is skipped.
C7_Routing ==
  \A k \in 1..Len(outcomes) :
    LET o == outcomes[k]
        p == ReplaceBackslashes(o.path)
    IN WasRouted(o) =>
         /\ (Includes(p, "/20-Concepts/") /\ ~Includes(p, "/10-Deep-Knowledge/"))
              => Routed(o) = "atomic_concepts"
         /\ Includes(p, "/10-Deep-Knowledge/") => Routed(o) = "deep_knowledge"
         /\ (~Includes(p, "/10-Deep-Knowledge/") /\ ~Includes(p, "/20-Concepts/")
               /\ ~Includes(p, "/30-Meetings/")) => Routed(o) = NoTable

C7_Witness ==
  \E k \in 1..Len(outcomes) :
    /\ outcomes[k].state = "Synced"
    /\ Includes(outcomes[k].path, "/20-Concepts/")
    /\ Includes(outcomes[k].path, "/30-Meetings/")
    /\ outcomes[k].table = "atomic_concepts"

\* The header of a walked document, and its filename without extension.
HeaderOf(filePath) == ParseFrontmatter(EntryAt(filePath).content).frontmatter

Present(fm, k) == k \in DOMAIN fm

\* Present with a value other than the empty string.
Usable(fm, k) == Present(fm, k) /\ fm[k] # Str("")

\* The slug of a header value or filename as a key; a list has none.
SlugKey(v) == IF v.t = "str" THEN Str(Slugify(v.s)) ELSE Undefined

\* The fallback chain as the claim states it, on presence.
ClaimedKey(table, fm, filename) ==
  IF table = "atomic_concepts"
  THEN IF Present(fm, "concept_name") THEN fm["concept_name"]
       ELSE IF Present(fm, "title") THEN fm["title"]
       ELSE Str(filename)
  ELSE IF Present(fm, KeyField(table)) THEN fm[KeyField(table)]
       ELSE IF Present(fm, "title") THEN SlugKey(fm["title"])
       ELSE SlugKey(Str(filename))

\* The fallback chain on fields that are present and not the empty string.
AmendedKey(table, fm, filename) ==
  IF table = "atomic_concepts"
  THEN IF Usable(fm, "concept_name") THEN fm["concept_name"]
       ELSE IF Usable(fm, "title") THEN fm["title"]
       ELSE Str(filename)
  ELSE IF Usable(fm, KeyField(table)) THEN fm[KeyField(table)]
       ELSE IF Usable(fm, "title") THEN SlugKey(fm["title"])
       ELSE SlugKey(Str(filename))

\* C8 as stated: the key of every upsert syncFile issues is the fallback
\* chain over the fields that are present.
C8_KeyChain_Original ==
  pc = "await" =>
    KeyOf(inflight.table, inflight.record)
      = ClaimedKey(inflight.table, HeaderOf(files[idx]), BasenameNoExt(files[idx]))

\* C8 amended: the key of every upsert syncFile issues is the fallback chain
\* over the fields that are present and not the empty string (an empty
\* explicit key or title falls through to the next link); a deep-knowledge
\* or meeting document whose chain reaches a list-valued title is not
\* upserted and ends Failed.
C8_KeyChain ==
  /\ pc = "await" =>
       /\ inflight.table = GetTargetTable(files[idx])
       /\ KeyOf(inflight.table, inflight.record)
            = AmendedKey(inflight.table, HeaderOf(files[idx]), BasenameNoExt(files[idx]))
       /\ KeyOf(inflight.table, inflight.record) # Undefined
  /\ \A k \in 1..Len(outcomes) :
       LET file == files[k]
           table == GetTargetTable(file)
       IN (EntryAt(file).readable /\ table # NoTable
             /\ AmendedKey(table, HeaderOf(file), BasenameNoExt(file)) = Undefined)
          => (outcomes[k].state = "Failed" /\ outcomes[k].why = "build")

\* An upsert awaited for a meeting whose meeting_id is present and empty and
\* whose title gives the key.
C8_Witness ==
  /\ pc = "await"
  /\ inflight.table = "raw_meeting_intelligence"
  /\ Present(HeaderOf(files[idx]), "meeting_id")
  /\ ~Usable(HeaderOf(files[idx]), "meeting_id")
  /\ inflight.record.meeting_id = Str("my_title")

\* C9: a routed document whose fallback chain yields an empty key ends in
\* Failed and no upsert is issued for it; every record handed to the store
\* and every row of the store has a non-empty key.
C9_NoEmptyKey ==
  /\ pc = "await" => KeyOf(inflight.table, inflight.record) # Str("")
  /\ \A t \in Tables : \A r \in store[t] : KeyOf(t, r) # Str("")
  /\ \A k \in 1..Len(outcomes) :
       LET file == files[k]
           table == GetTargetTable(file)
       IN (EntryAt(file).readable /\ table # NoTable
             /\ AmendedKey(table, HeaderOf(file), BasenameNoExt(file)) = Str(""))
          => outcomes[k].state = "Failed"

\* C10: a traversal error is fatal and precedes all processing. A walk in
\* which a directory read fails ends the run with no document read, no
\* upsert issued and the store as the run found it; a run processes
\* documents only with the list of the whole walk.
C10_TraversalFatal ==
  /\ walkFailed # "" => pc = "crashed"
  /\ pc = "crashed" =>
       /\ walkFailed \in DirPaths
       /\ store = store0
       /\ outcomes = <<>> /\ files = <<>> /\ inflight = NoUpsert
       /\ synced = 0 /\ skipped = 0 /\ errors = 0
  /\ pc \in {"loop", "await", "done"} =>
       /\ WalkDir(vaultPath, <<>>, {}).ok
       /\ files = WalkDir(vaultPath, <<>>, {}).list

\* The walk of a later run fails in a subdirectory, the store holding the
\* rows of the run before.
C10_Witness ==
  /\ pc = "crashed"
  /\ walkFailed = "/v/10-Deep-Knowledge/20-Concepts"
  /\ store # EmptyStore
  /\ store = store0 /\ prev.synced > 0

\* The stage syncFile stops at for a walked document, in the order of its
\* statements: the read, the route test after the parse, the record build,
\* the upsert.
StopStage(filePath) ==
  LET table == GetTargetTable(filePath) IN
  IF ~EntryAt(filePath).readable THEN "read"
  ELSE IF table = NoTable THEN "route"
  ELSE IF BuildThrows(table, HeaderOf(filePath), BasenameNoExt(filePath)) THEN "build"
  ELSE "upsert"

\* The stage a processed document stopped at, from what main recorded.
StoppedAt(o) ==
  CASE o.why = "read" -> "read"
    [] o.state = "Skipped" -> "route"
    [] o.why = "build" -> "build"
    [] OTHER -> "upsert"

\* Every processed document is in exactly one terminal state, the one its
\* first failing stage gives; an upsert is awaited only for the current
\* document, read and routed and built, every earlier one being terminal.
C11_Terminal ==
  /\ ProcessedOnce
  /\ \A k \in 1..Len(outcomes) :
       LET o == outcomes[k]
           stage == StopStage(files[k])
       IN /\ o.state \in {"Skipped", "Failed", "Synced"}
          /\ StoppedAt(o) = stage
          /\ stage \in {"read", "build"} => o.state = "Failed"
          /\ stage = "route" => o.state = "Skipped"
          /\ stage = "upsert" =>
               \/ o.state = "Synced"
               \/ o.state = "Failed" /\ o.why = "store"
  /\ pc = "await" =>
       /\ idx <= Len(files)
       /\ Len(outcomes) = idx - 1
       /\ StopStage(files[idx]) = "upsert"
       /\ inflight.table = GetTargetTable(files[idx])
       /\ inflight.record = PlanOf(files[idx]).record
  /\ pc # "await" => inflight = NoUpsert

\* A step issues an upsert only from the loop and for the document the loop
\* is at; the step after it makes that document terminal and moves on (no
\* second upsert for it); within a run the position never goes back and a
\* recorded terminal state never changes.
C11_Step ==
  /\ pc' = "await" => (pc = "loop" /\ idx' = idx /\ outcomes' = outcomes)
  /\ pc = "await" =>
       /\ pc' = "loop" /\ idx' = idx + 1
       /\ outcomes' = Append(outcomes, outcomes'[idx])
       /\ outcomes'[idx].path = files[idx]
       /\ outcomes'[idx].state \in {"Synced", "Failed"}
  /\ run' = run =>
       /\ idx' >= idx
       /\ Len(outcomes') >= Len(outcomes)
       /\ \A k \in 1..Len(outcomes) : outcomes'[k] = outcomes[k]

\* C11: per-document state machine without retries. In every run each walked
\* document goes through read, parse, route, build, upsert in that order and
\* ends in exactly one of Skipped, Failed, Synced, which it never leaves; a
\* document whose read fails ends Failed also when its path routes nowhere;
\* an upsert is issued only for a document read and routed, at most once per
\* document per run, and only after the previous document is terminal.
C11_StateMachine == []C11_Terminal /\ [][C11_Step]_vars

\* A finished run with an unreadable document on a path that routes nowhere,
\* a document whose upsert the store failed, and a synced one.
C11_Witness ==
  /\ pc = "done"
  /\ \E k \in 1..Len(outcomes) :
       /\ StopStage(files[k]) = "read" /\ GetTargetTable(files[k]) = NoTable
       /\ outcomes[k].state = "Failed"
  /\ \E k \in 1..Len(outcomes) : outcomes[k].why = "store"
  /\ \E k \in 1..Len(outcomes) : outcomes[k].state = "Synced"

====
